---- MODULE Spec2Model ----
(***************************************************************************)
(* ghb0t: deletes the head branch of a merged pull request when the branch *)
(* lives in a repository of the authenticated user.  Two ingestion paths   *)
(* (the notification poller and the webhook handler) end in closePR.       *)
(*                                                                         *)
(* Strings the code inspects character by character (branch names, refs,   *)
(* subject URLs) are sequences of one-character strings; error values are  *)
(* the sequence of the words of err.Error(), and <<>> is the nil error.    *)
(* An optional (pointer) field is <<>> when nil and <<v>> when present.    *)
(***************************************************************************)
EXTENDS Integers, Sequences, FiniteSets, TLC

(* ------------------------------ bounds --------------------------------- *)

\* pages of the largest notification feed
MaxPages == 2
\* notifications on one page
MaxItems == 2
\* the clock runs over 1..MaxTime
MaxTime == 2
\* closePR invocations of the direct driver (SpecClosePR)
MaxCalls == 2

(* ------------------------------ values --------------------------------- *)

Nil == <<>>

\* time.Time{}: the zero value of lastChecked (main.go:34)
ZeroTime == 0

\* the login of the authenticated user (main.go:111) and another account
username == "bot"
Logins == {"bot", "alice"}

RepoNames == {"r"}

master == <<"m", "a", "s", "t", "e", "r">>
Branches == {master, <<"f", "x">>, <<"f", "#", "1", "#">>}

\* err.Error() of the Gateway errors, word by word
Err422 == <<"DELETE", "u:", "422", "Reference", "does", "not", "exist", "[]">>
Err404 == <<"GET", "u:", "404", "Not", "Found", "[]">>
ErrNet == <<"dial", "tcp:", "i/o", "timeout">>
ErrSyntax == <<"strconv.Atoi:", "parsing", "invalid", "syntax">>

\* outcomes of client.Git.DeleteRef: nil or an error
DeleteOutcomes == {Nil, Err422, Err404, ErrNet}
\* errors of client.PullRequests.Get and client.Activity.ListNotifications
GetErrors == {Err404}
ListErrors == {ErrNet}

\* github.Repository of a pull request head: Owner is optional
Repos ==
  [Owner : {<<>>} \cup {<<[Login |-> l]>> : l \in Logins}, Name : RepoNames]

\* github.PullRequest as closePR reads it: Head.Repo is optional
PRs ==
  [State : {"open", "closed"}, Merged : BOOLEAN,
   Head : [Ref : Branches, Repo : {<<>>} \cup {<<r>> : r \in Repos}]]

(* ------------------------- pure functions ------------------------------ *)

\* a Replace that leaves the string as it is
Replace_None(s) ==
  s

\* strings.Replace(s, "#", "%23", 1): the first "#" only
Replace_First(s) ==
  LET hashes == {i \in 1..Len(s) : s[i] = "#"} IN
  IF hashes = {} THEN s
  ELSE LET i == CHOOSE h \in hashes : \A g \in hashes : h <= g IN
       SubSeq(s, 1, i - 1) \o <<"%", "2", "3">> \o SubSeq(s, i + 1, Len(s))

\* strings.Replace(s, "#", "%23", -1)
RECURSIVE Replace(_)
Replace(s) ==
  IF s = <<>> THEN <<>>
  ELSE IF Head(s) = "#" THEN <<"%", "2", "3">> \o Replace(Tail(s))
  ELSE <<Head(s)>> \o Replace(Tail(s))

\* strings.Contains(err.Error(), " 422 "): a word 422 with a space on both sides
Contains422(err) ==
  \E i \in 2..(Len(err) - 1) : err[i] = "422"

\* the "heads/" of main.go:174
Heads == <<"h", "e", "a", "d", "s", "/">>

\* the condition of main.go:161
IsMerged_StateOnly(pr) ==
  pr.State = "closed"

IsMerged(pr) ==
  pr.State = "closed" /\ pr.Merged

\* the condition of main.go:173 without the test of the branch, and without
\* the test of the owner
ShouldDelete_AnyBranch(user, owner, branch) ==
  owner = user

ShouldDelete_AnyOwner(user, owner, branch) ==
  branch # master

\* the condition of main.go:173
ShouldDelete(user, owner, branch) ==
  owner = user /\ branch # master

\* the condition of main.go:176 without the test for 422, and one that lets
\* no error through
ReturnsError_Any(err) ==
  err # Nil

ReturnsError_Swallow(err) ==
  FALSE

\* the condition of main.go:176
ReturnsError(err) ==
  err # Nil /\ ~Contains422(err)

\* a closePR that reports a missing head repository as an error
MissingHead_Error(pr) ==
  [deletes |-> <<>>, err |-> <<"head", "repository", "missing">>]

\* main.go:165-170: return nil when the head repository or its owner is nil
MissingHead(pr) ==
  [deletes |-> <<>>, err |-> Nil]

\* closePR (main.go:160-183) with the outcome del of the DeleteRef call it may
\* make: the DeleteRef calls issued, in order, and the error returned
closePR(user, pr, del) ==
  IF IsMerged(pr)
  THEN LET branch == pr.Head.Ref IN
       IF pr.Head.Repo = <<>> THEN MissingHead(pr)
       ELSE IF pr.Head.Repo[1].Owner = <<>> THEN MissingHead(pr)
       ELSE LET owner == pr.Head.Repo[1].Owner[1].Login IN
            IF ShouldDelete(user, owner, branch)
            THEN [deletes |-> <<[owner |-> user,
                                 repo |-> pr.Head.Repo[1].Name,
                                 ref |-> Replace(Heads \o pr.Head.Ref)]>>,
                  err |-> IF ReturnsError(del) THEN del ELSE Nil]
            ELSE [deletes |-> <<>>, err |-> Nil]
  ELSE [deletes |-> <<>>, err |-> Nil]

\* one closePR invocation as the history variables keep it: the pull request,
\* the DeleteRef calls, the outcome of DeleteRef (nil when none was made) and
\* the returned error
Invocation(user, pr, del) ==
  LET r == closePR(user, pr, del) IN
  [pr |-> pr, deletes |-> r.deletes,
   del |-> IF r.deletes = <<>> THEN Nil ELSE del, err |-> r.err]

\* the outcomes DeleteRef can have in closePR(user, pr): drawn only when the
\* call is made
DeleteOutcomesOf(user, pr) ==
  IF closePR(user, pr, Nil).deletes = <<>> THEN {Nil} ELSE DeleteOutcomes

\* github.Notification as handleNotification reads it
Notifications ==
  [Type : {"PullRequest"}, URL : {<<"p", "/", "7">>, <<"p", "/", "x">>},
   Owner : {"alice"}, Name : RepoNames]
  \cup [Type : {"Issue"}, URL : {<<"i", "/", "3">>}, Owner : {"alice"}, Name : RepoNames]

\* the pull requests the Gateway and the webhooks deliver: GitHub closes a pull
\* request when it merges it
Snapshots == {pr \in PRs : pr.Merged => pr.State = "closed"}

\* the pagination fields of the responses of an n-page feed, by page: every page
\* but the last names the next and the last page, the last page names neither
\* (github.Response.NextPage and LastPage are 0 when the Link header lacks them)
GitHubFeed(n) ==
  [p \in 1..n |-> [NextPage |-> IF p < n THEN p + 1 ELSE 0,
                   LastPage |-> IF p < n THEN n ELSE 0]]

Feeds == {GitHubFeed(n) : n \in 1..MaxPages}

\* the webhook payload after json.Unmarshal (main.go:42-47)
Events ==
  [PullRequest : {<<>>} \cup {<<pr>> : pr \in Snapshots},
   Repository : {<<>>, <<"alice/r">>},
   Action : {"closed", "opened"}]

NoEvent == [PullRequest |-> <<>>, Repository |-> <<>>, Action |-> ""]

\* request bodies: one that json.Unmarshal rejects, and the ones it decodes
Bodies ==
  {[decoded |-> FALSE, evt |-> NoEvent]} \cup {[decoded |-> TRUE, evt |-> e] : e \in Events}

\* no webhook request served yet
NoHook ==
  [body |-> [decoded |-> FALSE, evt |-> NoEvent], closes |-> <<>>, end |-> "none"]

\* strings.Split(url, "/") and its last part (main.go:235-236)
RECURSIVE LastPart(_)
LastPart(s) ==
  IF \A i \in 1..Len(s) : s[i] # "/" THEN s ELSE LastPart(Tail(s))

Digit ==
  [c \in {"0", "1", "2", "3", "4", "5", "6", "7", "8", "9"} |->
     CASE c = "0" -> 0 [] c = "1" -> 1 [] c = "2" -> 2 [] c = "3" -> 3
       [] c = "4" -> 4 [] c = "5" -> 5 [] c = "6" -> 6 [] c = "7" -> 7
       [] c = "8" -> 8 [] c = "9" -> 9]

RECURSIVE ParseDigits(_, _)
ParseDigits(s, acc) ==
  IF s = <<>> THEN acc
  ELSE IF Head(s) \notin DOMAIN Digit THEN -1
  ELSE ParseDigits(Tail(s), 10 * acc + Digit[Head(s)])

\* strconv.Atoi (main.go:237): an optional sign, then one digit or more
Atoi(s) ==
  LET signed == s # <<>> /\ Head(s) \in {"+", "-"}
      body == IF signed THEN Tail(s) ELSE s
      v == IF body = <<>> THEN -1 ELSE ParseDigits(body, 0)
  IN IF v = -1 THEN [val |-> 0, err |-> ErrSyntax]
     ELSE [val |-> IF signed /\ Head(s) = "-" THEN 0 - v ELSE v, err |-> Nil]

\* handleNotification (main.go:231-249) with the outcome get of the
\* PullRequests.Get call it may make (<<pr>>, or an error) and the outcome del
\* of DeleteRef: the Get calls issued, the closePR invocations and the error
handleNotification(n, user, get, del) ==
  IF n.Type = "PullRequest"
  THEN LET id == Atoi(LastPart(n.URL)) IN
       IF id.err # Nil THEN [gets |-> <<>>, closes |-> <<>>, err |-> id.err]
       ELSE LET call == [owner |-> n.Owner, repo |-> n.Name, number |-> id.val] IN
            IF get.err # Nil THEN [gets |-> <<call>>, closes |-> <<>>, err |-> get.err]
            ELSE LET c == Invocation(user, get.pr[1], del) IN
                 [gets |-> <<call>>, closes |-> <<c>>, err |-> c.err]
  ELSE [gets |-> <<>>, closes |-> <<>>, err |-> Nil]

\* outcomes of client.PullRequests.Get
GetOutcomes ==
  {[pr |-> <<pr>>, err |-> Nil] : pr \in Snapshots}
  \cup {[pr |-> <<>>, err |-> e] : e \in GetErrors}

\* the outcomes PullRequests.Get can have in handleNotification(n): drawn only
\* when the call is made
GetOutcomesOf(n, user) ==
  LET failed == [pr |-> <<>>, err |-> Err404] IN
  IF handleNotification(n, user, failed, Nil).gets = <<>> THEN {failed} ELSE GetOutcomes

\* github.NotificationListOptions of one request (main.go:198-205)
Options(since, p) ==
  [All |-> TRUE, Since |-> since, Page |-> p, PerPage |-> 20]

\* lastChecked after main.go:206-208, at time t
Watermark(since, t) ==
  IF since = ZeroTime THEN t ELSE since

\* a loop that goes on after an error
AbortsCycle_Never(err) ==
  FALSE

\* main.go:217-219: an error of handleNotification ends getNotifications
AbortsCycle(err) ==
  err # Nil

\* main.go:223 without the test of NextPage
OnLastPage_LastOnly(p, r) ==
  p = r.LastPage

\* main.go:223 stopping one page early
OnLastPage_OffByOne(p, r) ==
  p + 1 = r.LastPage \/ r.NextPage = 0

\* main.go:223: the page just handled is the last one
OnLastPage(p, r) ==
  p = r.LastPage \/ r.NextPage = 0

\* the response of the feed to a request for page p
Links(f, p) ==
  IF p \in DOMAIN f THEN f[p] ELSE [NextPage |-> 0, LastPage |-> 0]

\* what the poller has done since the last tick
NoCycle ==
  [fetched |-> <<>>, resolved |-> 0, evaluated |-> 0, onePR |-> TRUE]

\* time.NewTicker (main.go:186) makes a channel that buffers one tick
TickerBuffer == 1

\* a notifier that starts a cycle whether or not the last one has returned
Receives_Anytime(at) ==
  TRUE

\* notifier (main.go:187-193): the loop receives a tick only between two calls
\* of getNotifications, which it makes itself
Receives(at) ==
  at = "idle"

\* a notifier that goes on from the page the last cycle reached
StartPage_Resume(p) ==
  p

\* main.go:188: every cycle starts at page 1
StartPage(p) ==
  1

\* notifier (main.go:190-193): the error is logged and the loop goes on
AfterCycle(err) ==
  "idle"

\* the signal goroutine (main.go:89-93) with the value t of main's ticker:
\* t.Stop() on a nil *time.Ticker is a nil pointer dereference, which ends the
\* process with exit code 2 before os.Exit(0) is reached
onSignal(t) ==
  IF t = <<>> THEN [stops |-> FALSE, exit |-> "exit2"]
  ELSE [stops |-> TRUE, exit |-> "exit0"]

\* saturating count of requests: 0, 1, 2 = two or more
Count(n) ==
  IF n < 2 THEN n + 1 ELSE 2

(* ------------------------------ state ---------------------------------- *)

VARIABLES
  webhook,        \* the -webhook flag (main.go:39): which ingestion path runs
  proc,           \* "running", or "exit1" after logrus.Fatal
  now,            \* the wall clock, what time.Now() returns
  lastChecked,    \* the watermark (main.go:34)
  pc,             \* where the poller is: "idle" in the ticker loop, "call" at
                  \* the entry of getNotifications, "list" before the request,
                  \* "loop" in the loop over the notifications
  page,           \* the page argument of the running getNotifications
  opt,            \* the options built by the running getNotifications
  notifications,  \* how many notifications of the page are not yet handled
                  \* (what each one holds is drawn when the loop reaches it)
  resp,           \* the pagination fields of the last response
  feed,           \* the feed the Gateway serves during this tick
  warn,           \* what the notifier logged when the last cycle returned, until
                  \* the next cycle has its first response
  handleErr,      \* the error of the last handleNotification of this tick
  cycle,          \* pages fetched, pull requests resolved and evaluated this tick
  firstReq,       \* the options of the first ListNotifications request ever
  lastReq,        \* the options of the latest ListNotifications request
  nreq,           \* requests issued so far: 0, 1, 2 = two or more
  lastClose,      \* the closePR invocation of the step just taken, <<>> if none
  hook,           \* the latest webhook request: its body, the closePR
                  \* invocation it made and how it ended
  calls,          \* closePR invocations of the direct driver, oldest first
  ticks,          \* ticks buffered in the channel of the notifier's ticker
  active,         \* getNotifications calls of the notifier that have not returned
  ticker,         \* the variable ticker of main (main.go:83), <<>> when nil
  stopped         \* Stop has been called on the notifier's ticker

vars ==
  <<webhook, proc, now, lastChecked, pc, page, opt, notifications, resp, feed,
    warn, handleErr, cycle, firstReq, lastReq, nreq, lastClose, hook, calls,
    ticks, active, ticker, stopped>>

pollerVars ==
  <<pc, page, opt, notifications, resp, feed, warn, handleErr, cycle,
    firstReq, lastReq, nreq, ticks, active>>

\* the variables of main and of its signal goroutine
mainVars ==
  <<ticker, stopped>>

Init ==
  /\ webhook \in BOOLEAN
  /\ proc = "running"
  /\ now = 1
  /\ lastChecked = ZeroTime
  /\ pc = "idle"
  /\ page = 1
  /\ opt = Options(ZeroTime, 1)
  /\ notifications = 0
  /\ resp = [NextPage |-> 0, LastPage |-> 0]
  /\ feed = GitHubFeed(1)
  /\ warn = Nil
  /\ handleErr = Nil
  /\ cycle = NoCycle
  /\ firstReq = <<>>
  /\ lastReq = <<>>
  /\ nreq = 0
  /\ lastClose = <<>>
  /\ hook = NoHook
  /\ calls = <<>>
  /\ ticks = 0
  /\ active = 0
  /\ ticker = <<>>
  /\ stopped = FALSE

(* ------------------------------ poller --------------------------------- *)

\* time passes
Tock ==
  /\ proc = "running"
  /\ now < MaxTime
  /\ now' = now + 1
  /\ UNCHANGED <<mainVars, webhook, proc, lastChecked, pollerVars, hook, calls>>
  /\ lastClose' = <<>>

\* the ticker of the notifier (main.go:186) fires: the tick is buffered in
\* ticker.C, or dropped when the buffer is full
TimerFires ==
  /\ ~webhook
  /\ proc = "running"
  /\ ticks < TickerBuffer
  /\ ticks' = ticks + 1
  /\ UNCHANGED <<mainVars, webhook, proc, now, lastChecked, pc, active, page, opt,
                 notifications, resp, feed, warn, handleErr, cycle, firstReq,
                 lastReq, nreq, hook, calls>>
  /\ lastClose' = <<>>

\* notifier (main.go:187-190): a tick starts getNotifications at page 1
Tick ==
  /\ ~webhook
  /\ proc = "running"
  /\ Receives(pc)
  /\ ticks > 0
  /\ ticks' = ticks - 1
  /\ pc' = "call"
  /\ active' = active + 1
  /\ page' = StartPage(page)
  /\ feed' \in Feeds
  /\ notifications' = 0
  /\ handleErr' = Nil
  /\ cycle' = NoCycle
  /\ UNCHANGED <<mainVars, webhook, proc, now, lastChecked, opt, resp, warn, firstReq,
                 lastReq, nreq, hook, calls>>
  /\ lastClose' = <<>>

\* getNotifications (main.go:198-208): build the options, then set the watermark
BuildOptions ==
  /\ proc = "running"
  /\ pc = "call"
  /\ opt' = Options(lastChecked, page)
  /\ lastChecked' = Watermark(lastChecked, now)
  /\ pc' = "list"
  /\ UNCHANGED <<mainVars, webhook, proc, now, ticks, active, page, notifications, resp,
                 feed, warn, handleErr, cycle, firstReq, lastReq, nreq, hook, calls>>
  /\ lastClose' = <<>>

\* getNotifications (main.go:210-213): the request and its response
ListNotifications ==
  /\ proc = "running"
  /\ pc = "list"
  /\ lastReq' = <<opt>>
  /\ firstReq' = IF firstReq = <<>> THEN <<opt>> ELSE firstReq
  /\ nreq' = Count(nreq)
  /\ \E err \in ListErrors \cup {Nil} :
       IF err # Nil
       THEN /\ pc' = AfterCycle(err)
            /\ active' = active - 1
            /\ warn' = err
            /\ cycle' = [cycle EXCEPT !.fetched = Append(@, opt.Page)]
            /\ UNCHANGED <<notifications, resp>>
       ELSE /\ pc' = "loop"
            /\ notifications' \in 0..MaxItems
            /\ resp' = Links(feed, opt.Page)
            /\ cycle' = [cycle EXCEPT !.fetched = Append(@, opt.Page),
                                      !.onePR = @ /\ notifications' = 1]
            /\ warn' = Nil
            /\ UNCHANGED active
  /\ UNCHANGED <<mainVars, webhook, proc, now, ticks, lastChecked, page, opt, feed,
                 handleErr, hook, calls>>
  /\ lastClose' = <<>>

\* main.go:217 for every notification the loop can meet and every outcome of
\* the Gateway calls that handleNotification makes for it: the notification,
\* the outcome of PullRequests.Get and what handleNotification does
HandleOutcomes ==
  UNION {UNION {{[n |-> n, get |-> get, h |-> handleNotification(n, username, get, del)] :
                   del \in IF get.err = Nil
                           THEN DeleteOutcomesOf(username, get.pr[1]) ELSE {Nil}} :
                get \in GetOutcomesOf(n, username)} :
         n \in Notifications}

\* getNotifications (main.go:215-220): one turn of the loop
HandleNotification ==
  /\ proc = "running"
  /\ pc = "loop"
  /\ notifications > 0
  /\ \E o \in HandleOutcomes :
       LET n == o.n
           get == o.get
           h == o.h
       IN
       /\ handleErr' = h.err
       /\ cycle' = [cycle EXCEPT
            !.resolved = @ + (IF Len(h.gets) = 1 /\ get.err = Nil THEN 1 ELSE 0),
            !.evaluated = @ + Len(h.closes),
            !.onePR = @ /\ n.Type = "PullRequest"]
       /\ lastClose' = h.closes
       /\ IF AbortsCycle(h.err)
          THEN /\ pc' = AfterCycle(h.err)
               /\ active' = active - 1
               /\ warn' = h.err
               /\ UNCHANGED notifications
          ELSE /\ notifications' = notifications - 1
               /\ UNCHANGED <<pc, warn, active>>
  /\ UNCHANGED <<mainVars, webhook, proc, now, ticks, lastChecked, page, opt, resp, feed,
                 firstReq, lastReq, nreq, hook, calls>>

\* getNotifications (main.go:222-228): return on the last page, else recurse
PageEnd ==
  /\ proc = "running"
  /\ pc = "loop"
  /\ notifications = 0
  /\ IF OnLastPage(page, resp)
     THEN /\ pc' = AfterCycle(Nil)
          /\ active' = active - 1
          /\ warn' = Nil
          /\ UNCHANGED page
     ELSE /\ pc' = "call"
          /\ page' = resp.NextPage
          /\ UNCHANGED <<warn, active>>
  /\ UNCHANGED <<mainVars, webhook, proc, now, ticks, lastChecked, opt, notifications,
                 resp, feed, handleErr, cycle, firstReq, lastReq, nreq, hook, calls>>
  /\ lastClose' = <<>>

\* the goroutine of main.go:88-94 receives SIGINT or SIGTERM
Signal ==
  /\ proc = "running"
  /\ LET r == onSignal(ticker) IN
       /\ proc' = r.exit
       /\ stopped' = (stopped \/ r.stops)
  /\ UNCHANGED <<ticker, webhook, now, lastChecked, pollerVars, hook, calls>>
  /\ lastClose' = <<>>

(* ------------------------------ webhook -------------------------------- *)

\* a handler that goes on after a failed read or decode
IsFatal_Ignored(decoded) ==
  FALSE

\* main.go:130-139: logrus.Fatal when the body cannot be read or decoded
IsFatal(decoded) ==
  ~decoded

\* a handler with a decision of its own: it takes every closed pull request
\* for a merged one
handler_OwnDecision(decoded, evt, user, del) ==
  IF IsFatal(decoded) THEN [closes |-> <<>>, end |-> "fatal"]
  ELSE IF evt.PullRequest # <<>>
       THEN IF evt.Action = "closed"
            THEN LET c == Invocation(user, [evt.PullRequest[1] EXCEPT !.Merged = TRUE], del) IN
                 [closes |-> <<c>>,
                  end |-> IF c.err # Nil /\ evt.Repository = <<>>
                          THEN "panic" ELSE "done"]
            ELSE [closes |-> <<>>,
                  end |-> IF evt.Repository = <<>> THEN "panic" ELSE "done"]
       ELSE [closes |-> <<>>, end |-> "done"]

\* the handler of buildHandler (main.go:129-152) on a body that decodes to evt
\* (decoded = TRUE) or does not: the closePR invocation if any, and how the
\* request ends ("fatal": logrus.Fatal; "panic": a nil dereference in a log
\* call, which net/http recovers; "done")
handler(decoded, evt, user, del) ==
  IF IsFatal(decoded) THEN [closes |-> <<>>, end |-> "fatal"]
  ELSE IF evt.PullRequest # <<>>
       THEN IF evt.Action = "closed"
            THEN LET c == Invocation(user, evt.PullRequest[1], del) IN
                 [closes |-> <<c>>,
                  end |-> IF c.err # Nil /\ evt.Repository = <<>>
                          THEN "panic" ELSE "done"]
            ELSE [closes |-> <<>>,
                  end |-> IF evt.Repository = <<>> THEN "panic" ELSE "done"]
       ELSE [closes |-> <<>>, end |-> "done"]

\* a handler that stamps the watermark like getNotifications does
Handler_TouchesWatermark ==
  /\ webhook
  /\ proc = "running"
  /\ \E body \in Bodies :
     \E del \in IF body.evt.PullRequest # <<>>
                THEN DeleteOutcomesOf(username, body.evt.PullRequest[1]) ELSE {Nil} :
       LET h == handler(body.decoded, body.evt, username, del) IN
       /\ hook' = [body |-> body, closes |-> h.closes, end |-> h.end]
       /\ proc' = IF h.end = "fatal" THEN "exit1" ELSE proc
       /\ lastClose' = h.closes
  /\ lastChecked' = Watermark(lastChecked, now)
  /\ UNCHANGED <<mainVars, webhook, now, pollerVars, calls>>

\* one webhook request, served to its end
Handler ==
  /\ webhook
  /\ proc = "running"
  /\ \E body \in Bodies :
     \E del \in IF body.evt.PullRequest # <<>>
                THEN DeleteOutcomesOf(username, body.evt.PullRequest[1]) ELSE {Nil} :
       LET h == handler(body.decoded, body.evt, username, del) IN
       /\ hook' = [body |-> body, closes |-> h.closes, end |-> h.end]
       /\ proc' = IF h.end = "fatal" THEN "exit1" ELSE proc
       /\ lastClose' = h.closes
  /\ UNCHANGED <<mainVars, webhook, now, lastChecked, pollerVars, calls>>

Next ==
  \/ Tock
  \/ TimerFires
  \/ Signal
  \/ Tick
  \/ BuildOptions
  \/ ListNotifications
  \/ HandleNotification
  \/ PageEnd
  \/ Handler

Spec == Init /\ [][Next]_vars

\* the steps of the notifier goroutine (main.go:185-229)
Notifier ==
  Tick \/ BuildOptions \/ ListNotifications \/ HandleNotification \/ PageEnd

\* Spec with a ticker that keeps firing (main.go:186) and a notifier goroutine
\* that is scheduled as long as it can take a step, every Gateway call
\* returning (main.go:187-229)
FairSpec ==
  /\ Init
  /\ [][Next]_vars
  /\ WF_vars(TimerFires)
  /\ WF_vars(Notifier)

(* --------------------- closePR driven directly ------------------------- *)

CallClosePR ==
  /\ Len(calls) < MaxCalls
  /\ \E pr \in PRs :
     \E del \in DeleteOutcomesOf(username, pr) :
       calls' = Append(calls, Invocation(username, pr, del))
  /\ UNCHANGED <<mainVars, webhook, proc, now, lastChecked, pollerVars, lastClose, hook>>

NextClosePR == CallClosePR

SpecClosePR == Init /\ [][NextClosePR]_vars

(* ------------------------------ claims --------------------------------- *)

\* a pull request that is closed, merged, whose head repository belongs to the
\* bot and whose head branch is not master
Eligible(pr) ==
  /\ pr.State = "closed"
  /\ pr.Merged
  /\ pr.Head.Repo # <<>>
  /\ pr.Head.Repo[1].Owner # <<>>
  /\ pr.Head.Repo[1].Owner[1].Login = username
  /\ pr.Head.Ref # master

OwnedBy(pr, login) ==
  /\ pr.Head.Repo # <<>>
  /\ pr.Head.Repo[1].Owner # <<>>
  /\ pr.Head.Repo[1].Owner[1].Login = login

\* r is s with every "#" replaced by "%23" and every other character kept
HashEscaped(s, r) ==
  LET hashes(i) == Cardinality({j \in 1..(i - 1) : s[j] = "#"})
      at(i) == (i - 1) + 2 * hashes(i)
  IN /\ Len(r) = Len(s) + 2 * hashes(Len(s) + 1)
     /\ \A i \in 1..Len(s) :
          IF s[i] = "#"
          THEN r[at(i) + 1] = "%" /\ r[at(i) + 2] = "2" /\ r[at(i) + 3] = "3"
          ELSE r[at(i) + 1] = s[i]

\* C1: on either ingestion path, a closePR invocation for a pull request whose
\* head branch is "master" issues no DeleteRef call.
C1_NeverDeletesMaster ==
  \A i \in 1..Len(lastClose) :
    lastClose[i].pr.Head.Ref = master => lastClose[i].deletes = <<>>

\* the poller has evaluated a closed, merged pull request from master of a
\* repository of the bot, and no DeleteRef call was made
C1_Witness ==
  /\ ~webhook
  /\ lastClose # <<>>
  /\ lastClose[1].pr.Head.Ref = master
  /\ IsMerged(lastClose[1].pr)
  /\ OwnedBy(lastClose[1].pr, username)
  /\ lastClose[1].deletes = <<>>

\* C2: a DeleteRef call is issued only for a pull request whose head repository
\* is owned by the bot login, and its owner argument is the bot login; a pull
\* request of another owner gets no DeleteRef call.
C2_DeletesOnlyOwnRepository ==
  \A i \in 1..Len(lastClose) :
    /\ lastClose[i].deletes # <<>> => OwnedBy(lastClose[i].pr, username)
    /\ \A k \in 1..Len(lastClose[i].deletes) : lastClose[i].deletes[k].owner = username
    /\ ~OwnedBy(lastClose[i].pr, username) => lastClose[i].deletes = <<>>

\* a webhook delivered a closed, merged pull request from a branch of somebody
\* else's repository, and no DeleteRef call was made
C2_Witness ==
  /\ webhook
  /\ lastClose # <<>>
  /\ IsMerged(lastClose[1].pr)
  /\ OwnedBy(lastClose[1].pr, "alice")
  /\ lastClose[1].pr.Head.Ref # master
  /\ lastClose[1].deletes = <<>>

\* C3: for a pull request that is not merged or not closed, closePR issues no
\* DeleteRef call and returns nil.
C3_UnmergedOrOpenSkipped ==
  \A i \in 1..Len(calls) :
    (~calls[i].pr.Merged \/ calls[i].pr.State # "closed")
      => calls[i].deletes = <<>> /\ calls[i].err = Nil

\* closePR was called on a closed, unmerged pull request from a branch of the
\* bot's repository
C3_Witness ==
  \E i \in 1..Len(calls) :
    /\ ~calls[i].pr.Merged
    /\ calls[i].pr.State = "closed"
    /\ OwnedBy(calls[i].pr, username)
    /\ calls[i].pr.Head.Ref # master
    /\ calls[i].deletes = <<>>
    /\ calls[i].err = Nil

\* C4 as claimed: for an eligible pull request, one closePR invocation issues
\* exactly one DeleteRef call, with (bot login, head repository name, "heads/"
\* followed by the head branch name).
C4_Original ==
  \A i \in 1..Len(calls) :
    Eligible(calls[i].pr) =>
      calls[i].deletes = <<[owner |-> username,
                            repo |-> calls[i].pr.Head.Repo[1].Name,
                            ref |-> Heads \o calls[i].pr.Head.Ref]>>

\* C4 as amended: for an eligible pull request, one closePR invocation issues
\* exactly one DeleteRef call, with (bot login, head repository name, "heads/"
\* followed by the head branch name in which every "#" is written "%23").
C4_DeletesOnceWithEscapedRef ==
  \A i \in 1..Len(calls) :
    Eligible(calls[i].pr) =>
      /\ Len(calls[i].deletes) = 1
      /\ calls[i].deletes[1].owner = username
      /\ calls[i].deletes[1].repo = calls[i].pr.Head.Repo[1].Name
      /\ HashEscaped(Heads \o calls[i].pr.Head.Ref, calls[i].deletes[1].ref)

\* closePR was called on an eligible pull request from the branch "f#1#" and
\* issued one DeleteRef call
C4_Witness ==
  \E i \in 1..Len(calls) :
    /\ Eligible(calls[i].pr)
    /\ calls[i].pr.Head.Ref = <<"f", "#", "1", "#">>
    /\ Len(calls[i].deletes) = 1

\* C5: when closePR is called twice on the same eligible pull request, the
\* first DeleteRef succeeding and the second reporting that the branch does not
\* exist (422), both calls return nil.
C5_SecondCallNotFoundIsSuccess ==
  \A i, j \in 1..Len(calls) :
    (/\ i < j
     /\ calls[i].pr = calls[j].pr
     /\ Eligible(calls[i].pr)
     /\ calls[i].del = Nil
     /\ calls[j].del = Err422)
      => calls[i].err = Nil /\ calls[j].err = Nil

\* two calls on the same eligible pull request, each with its DeleteRef call:
\* the first deleted the branch, the second found it gone
C5_Witness ==
  /\ Len(calls) >= 2
  /\ calls[1].pr = calls[2].pr
  /\ Eligible(calls[1].pr)
  /\ Len(calls[1].deletes) = 1
  /\ Len(calls[2].deletes) = 1
  /\ calls[1].del = Nil
  /\ calls[2].del = Err422
  /\ calls[1].err = Nil
  /\ calls[2].err = Nil

\* C6: when DeleteRef fails with an error other than "does not exist" (422),
\* closePR returns that error; when DeleteRef succeeds or reports 422, closePR
\* returns nil.
C6_OtherErrorsPropagate ==
  \A i \in 1..Len(calls) :
    calls[i].deletes # <<>> =>
      IF calls[i].del \in {Nil, Err422}
      THEN calls[i].err = Nil
      ELSE calls[i].err = calls[i].del

\* a DeleteRef call failed with 404 and closePR returned that error
C6_Witness ==
  \E i \in 1..Len(calls) :
    /\ calls[i].deletes # <<>>
    /\ calls[i].del = Err404
    /\ calls[i].err = Err404

\* C7: when a tick over an N-page feed, every page holding one pull-request
\* notification, returns without error, it has fetched the pages 1..N in
\* order, each once, and resolved and evaluated exactly N pull requests.
C7_PaginationVisitsEveryPageOnce ==
  (/\ pc = "idle"
   /\ cycle.fetched # <<>>
   /\ warn = Nil
   /\ cycle.onePR
   /\ feed \in Feeds)
    => /\ cycle.fetched = [i \in 1..Len(feed) |-> i]
       /\ cycle.resolved = Len(feed)
       /\ cycle.evaluated = Len(feed)

\* a tick over a feed of two pages or more has ended without error after one
\* pull request per page
C7_Witness ==
  /\ pc = "idle"
  /\ warn = Nil
  /\ cycle.onePR
  /\ Len(feed) >= 2
  /\ Len(cycle.fetched) = Len(feed)
  /\ cycle.evaluated = Len(feed)

\* C8: once handleNotification has returned an error on a tick (a subject URL
\* that does not parse, a failed PullRequests.Get, an error of closePR), the
\* cycle is over: the poller is back in the ticker loop with that error logged
\* as a warning, the step that returns the error leaves the process running,
\* and for the rest of the tick no other notification is handled and no other
\* page is fetched.
C8_ErrorAbortsCycle ==
  /\ [](handleErr # Nil => pc = "idle" /\ warn = handleErr)
  /\ [][handleErr = Nil /\ handleErr' # Nil => proc' = "running"]_vars
  /\ [][handleErr # Nil /\ handleErr' # Nil
          => cycle' = cycle /\ notifications' = notifications /\ page' = page]_vars

\* PullRequests.Get failed on the first of two notifications of a page that is
\* not the last one
C8_Witness ==
  /\ pc = "idle"
  /\ handleErr = Err404
  /\ warn = Err404
  /\ notifications = 2
  /\ ~OnLastPage(page, resp)
  /\ proc = "running"

\* C9: the first ListNotifications request of the process carries the watermark
\* that the first tick has set, not the zero time.
C9_FirstRequestSinceWatermark ==
  firstReq # <<>> =>
    firstReq[1].Since # ZeroTime /\ firstReq[1].Since = lastChecked

\* C10: once set, lastChecked never changes, and every ListNotifications
\* request issued from then on carries it as since.
C10_WatermarkPinned ==
  /\ [][lastChecked # ZeroTime => lastChecked' = lastChecked]_vars
  /\ [](lastChecked # ZeroTime /\ lastReq # <<>> => lastReq[1].Since = lastChecked)

\* C11: for a decoded payload the handler calls closePR exactly when the pull
\* request is present and the action is "closed"; otherwise it makes no Gateway
\* call and the request completes normally.
C11_HandlerDispatch ==
  (hook.end # "none" /\ hook.body.decoded) =>
    LET evt == hook.body.evt
        passes == evt.PullRequest # <<>> /\ evt.Action = "closed"
    IN /\ hook.closes # <<>> <=> passes
       /\ passes => hook.closes[1].pr = evt.PullRequest[1]
       /\ ~passes => hook.closes = <<>> /\ hook.end = "done"

\* C12: when the body cannot be read or decoded the process terminates, and no
\* Gateway call is made for that request.
C12_DecodeFailureIsFatal ==
  (hook.end # "none" /\ ~hook.body.decoded) =>
    /\ hook.end = "fatal"
    /\ proc = "exit1"
    /\ hook.closes = <<>>
    /\ lastClose = <<>>

\* a request whose body does not decode has ended the process
C12_Witness ==
  /\ webhook
  /\ hook.end = "fatal"
  /\ ~hook.body.decoded
  /\ proc = "exit1"

\* C13: when SIGINT or SIGTERM arrives while the poller runs, the poll timer is
\* stopped and the process exits with code 0.
C13_SignalStopsTimerAndExitsZero ==
  (~webhook /\ proc # "running") => proc = "exit0" /\ stopped

\* C14: for a closed and merged pull request whose head repository, or the
\* owner of it, is absent, closePR issues no DeleteRef call and returns nil.
C14_MissingHeadRepositorySkipped ==
  \A i \in 1..Len(calls) :
    (/\ calls[i].pr.State = "closed"
     /\ calls[i].pr.Merged
     /\ ~\E l \in Logins : OwnedBy(calls[i].pr, l))
      => calls[i].deletes = <<>> /\ calls[i].err = Nil /\ calls[i].del = Nil

\* closePR was called on a merged pull request without head repository, and on
\* one whose head repository has no owner
C14_Witness ==
  /\ \E i \in 1..Len(calls) :
       /\ IsMerged(calls[i].pr)
       /\ calls[i].pr.Head.Repo = <<>>
       /\ calls[i].pr.Head.Ref # master
       /\ calls[i].deletes = <<>>
  /\ \E i \in 1..Len(calls) :
       /\ IsMerged(calls[i].pr)
       /\ calls[i].pr.Head.Repo # <<>>
       /\ calls[i].pr.Head.Repo[1].Owner = <<>>
       /\ calls[i].deletes = <<>>

\* C15: a cycle that starts after an aborted one starts from page 1 with
\* nothing fetched, whatever page the aborted cycle had reached, and the abort
\* leaves the poller running; when the ticker keeps firing and the notifier is
\* scheduled, every buffered tick is eventually received and starts a cycle,
\* unless a signal ends the process first.
C15_NextTickStartsClean ==
  /\ [][pc = "idle" /\ pc' # "idle"
          => pc' = "call" /\ page' = 1 /\ cycle' = NoCycle /\ handleErr' = Nil]_vars
  /\ [][warn = Nil /\ warn' # Nil => pc' = "idle" /\ proc' = "running"]_vars
  /\ []((ticks > 0 \/ (pc = "idle" /\ warn # Nil /\ ~webhook))
          => <>((pc = "call" /\ page = 1) \/ proc # "running"))

\* a cycle has aborted on page 2 and the next tick has started a cycle at
\* page 1 with nothing fetched
C15_Witness ==
  /\ pc = "call"
  /\ warn # Nil
  /\ lastReq # <<>>
  /\ lastReq[1].Page = 2
  /\ page = 1
  /\ cycle = NoCycle
  /\ proc = "running"

\* C16: at most one getNotifications call of the notifier is in progress at any
\* time; a tick that fires while a cycle runs stays in the channel and starts
\* nothing, and a cycle begins only when the previous call has returned.
C16_CyclesNeverOverlap ==
  /\ [](active <= 1 /\ (active = 1 <=> pc # "idle"))
  /\ [][active' > active => active = 0 /\ pc = "idle" /\ ticks' = ticks - 1]_vars
  /\ [][pc # "idle" /\ ticks' # ticks => ticks' = ticks + 1 /\ active' = active /\ pc' = pc]_vars

\* the ticker has fired while a cycle is handling the notifications of a page
C16_Witness ==
  /\ ticks = 1
  /\ pc = "loop"
  /\ notifications > 0
  /\ active = 1
  /\ proc = "running"

\* C17: a cycle over a finite feed fetches no page twice; after the last
\* notification of a page it goes on to the next page exactly when the response
\* names a next page and the page is not the reported last page, and otherwise
\* returns to the ticker loop; when the notifier is scheduled, every cycle
\* ends, unless a signal ends the process first.
C17_DrainingTerminates ==
  /\ [](\A i, j \in 1..Len(cycle.fetched) : i # j => cycle.fetched[i] # cycle.fetched[j])
  /\ [][pc = "loop" /\ notifications = 0 /\ pc' # pc
          => IF resp.NextPage # 0 /\ page # resp.LastPage
             THEN pc' = "call" /\ page' = resp.NextPage /\ active' = active
             ELSE pc' = "idle" /\ active' = 0]_vars
  /\ [](pc # "idle" => <>(pc = "idle" \/ proc # "running"))

\* a cycle over a feed of two pages has fetched both and returned
C17_Witness ==
  /\ pc = "idle"
  /\ active = 0
  /\ cycle.fetched = <<1, 2>>
  /\ page = 2
  /\ resp.NextPage = 0
  /\ warn = Nil
  /\ handleErr = Nil

DeletesOf(closes) ==
  IF closes = <<>> THEN <<>> ELSE closes[1].deletes

\* C19: the DeleteRef calls made for a pull request that arrives in a webhook
\* event with action "closed" are the ones handleNotification makes for the same
\* pull request, and the calls made for a pull request that the poller resolved
\* are the ones the webhook handler makes for it, the Gateway answering alike.
C19_BothPathsSameDecision ==
  LET viaHook(pr, del) ==
        handler(TRUE, [PullRequest |-> <<pr>>, Repository |-> <<"alice/r">>,
                       Action |-> "closed"], username, del).closes
      viaPoll(pr, del) ==
        handleNotification([Type |-> "PullRequest", URL |-> <<"p", "/", "7">>,
                            Owner |-> "alice", Name |-> "r"],
                           username, [pr |-> <<pr>>, err |-> Nil], del).closes
      evt == hook.body.evt
  IN /\ (/\ webhook
          /\ hook.end # "none"
          /\ hook.body.decoded
          /\ evt.PullRequest # <<>>
          /\ evt.Action = "closed")
         => /\ hook.closes # <<>>
            /\ DeletesOf(hook.closes)
                 = DeletesOf(viaPoll(evt.PullRequest[1], hook.closes[1].del))
     /\ (~webhook /\ lastClose # <<>>)
         => DeletesOf(lastClose)
              = DeletesOf(viaHook(lastClose[1].pr, lastClose[1].del))

\* a webhook event with action "closed" has brought a merged pull request from
\* a branch of the bot, and one DeleteRef call was made
C19_Witness ==
  /\ webhook
  /\ hook.body.decoded
  /\ hook.body.evt.Action = "closed"
  /\ hook.body.evt.PullRequest # <<>>
  /\ Eligible(hook.body.evt.PullRequest[1])
  /\ Len(DeletesOf(hook.closes)) = 1

\* C20: the ref argument of every DeleteRef call is "heads/" followed by the
\* head branch name in which every "#" is written "%23" and every other
\* character is kept; for a branch name without "#" it is "heads/" followed by
\* the branch name.
C20_RefIsHeadsPlusEscapedBranch ==
  \A i \in 1..Len(calls) :
    \A k \in 1..Len(calls[i].deletes) :
      LET branch == calls[i].pr.Head.Ref
          ref == calls[i].deletes[k].ref
      IN /\ Len(ref) >= Len(Heads)
         /\ SubSeq(ref, 1, Len(Heads)) = Heads
         /\ HashEscaped(branch, SubSeq(ref, Len(Heads) + 1, Len(ref)))
         /\ \A j \in 1..Len(ref) : ref[j] # "#"
         /\ (\A j \in 1..Len(branch) : branch[j] # "#") => ref = Heads \o branch

\* closePR has issued a DeleteRef call for a branch with two "#" and one for a
\* branch without
C20_Witness ==
  /\ \E i \in 1..Len(calls) :
       /\ calls[i].deletes # <<>>
       /\ Cardinality({j \in 1..Len(calls[i].pr.Head.Ref) : calls[i].pr.Head.Ref[j] = "#"}) = 2
       /\ Len(calls[i].deletes[1].ref) = Len(Heads) + Len(calls[i].pr.Head.Ref) + 4
  /\ \E i \in 1..Len(calls) :
       /\ calls[i].deletes # <<>>
       /\ calls[i].deletes[1].ref = Heads \o <<"f", "x">>

====
